---------------------------- MODULE Spec2Model ----------------------------
(***************************************************************************)
(* Model of unifi_collector.py: the coordinate reconciler and the tile     *)
(* grid renderer (zoom calculation, tile fetch loop, stitcher).            *)
(*                                                                         *)
(* Coordinates are fixed-point integers in units of 1e-5 degree            *)
(* (40.001 degrees = 4000100), so the tolerance 0.03 is 3000, the          *)
(* degenerate-latitude threshold 0.1 is 10000 and the padding floor        *)
(* 0.0005 is 50.  All device coordinates drawn as inputs are multiples of  *)
(* 100 units, which keeps the 5% padding (span / 20) exact.                *)
(***************************************************************************)
EXTENDS Integers, Sequences, FiniteSets, TLC

VARIABLES
    \* ---- process environment and working directory
    api_key,        \* os.getenv("GOOGLE_MAPS_KEY") is set (truthy)
    tile_files,     \* working directory: tile file name -> image size <<w, h>>
    stitched_files, \* working directory: style -> stitched image [w, h, pastes]
    stale,          \* names of the tile files that were there before the run
    \* ---- download_google_map
    pc,             \* "idle" | "loop" | "returned" | "raised"
    box,            \* argument <<lat_min, lat_max, lon_min, lon_max>>
    map_type,       \* argument map_type
    grid_size,      \* argument grid_size
    zoom,           \* local zoom
    row, col,       \* loop indices
    req_log,        \* tile requests issued by this call, in order
    written,        \* tile files written by this call
    failed,         \* tiles of the run whose fetch failed
    last_print,     \* kind of the last line printed by the fetch loop
    \* ---- stitch_maps
    st_calls,       \* completed calls: [style, n, ret, opened, wrote]
    \* ---- format_data_for_touchdesigner
    fpc,            \* position in the function
    uisp_devs, uisp_sites, get_map,           \* arguments
    site_map, idx, temp_uisp, lats, lons,     \* locals
    uisp, map_metadata,                       \* combined_data
    \* ---- harness re-applying the median filter
    passes, first_run,
    \* ---- harness calling calculate_zoom_level
    zoom_calls

tileVars    == <<api_key, tile_files, stitched_files, stale, pc, box, map_type,
                 grid_size, zoom, row, col, req_log, written, failed,
                 last_print, st_calls>>
dlVars      == <<pc, box, map_type, grid_size, zoom, row, col, req_log,
                 written, failed, last_print>>
reconVars   == <<uisp_devs, uisp_sites, get_map, site_map, idx, temp_uisp,
                 lats, lons, uisp, map_metadata>>
filterVars  == <<passes, first_run>>
callerVars  == <<fpc, reconVars, filterVars, zoom_calls>>
vars        == <<tileVars, fpc, reconVars, filterVars, zoom_calls>>

-----------------------------------------------------------------------------
(* Bounds                                                                  *)

MaxGrid     == 2    \* largest grid size of a direct download / stitch call
MaxDevs     == 3    \* longest raw device list
MaxCands    == 3    \* longest candidate list handed to the filter harness
MaxHoles    == 1    \* stale grids of the pipeline lack at most this many tiles
MaxStale    == 1    \* most stale tile files before a direct download
MaxFailures == 1    \* most failed tile fetches in one pipeline run
MaxZoomGrid == 8    \* largest grid size handed to calculate_zoom_level

-----------------------------------------------------------------------------
(* Program constants                                                       *)

TOLERANCE       == 3000     \* 0.03 degree
DEGENERATE_LAT  == 10000    \* 0.1 degree
PAD_FLOOR       == 50       \* 0.0005 degree
PAD_DIVISOR     == 20       \* * 0.05
PIPELINE_GRID   == 4        \* grid_size = 4
REQUEST_SIZE    == 640      \* "size": "640x640"
REQUEST_SCALE   == 2        \* "scale": "2"
MAX_ZOOM        == 21
WORLD_PER_PIXEL == 180000000 \* 360 / 256 * 1280 degrees, in 1e-5 degree

Styles == {"satellite", "roadmap"}

\* the return value None (file names are tuples)
None == <<>>

Abs(x) == IF x < 0 THEN -x ELSE x
Min2(a, b) == IF a <= b THEN a ELSE b
Max2(a, b) == IF a >= b THEN a ELSE b

-----------------------------------------------------------------------------
(* calculate_zoom_level                                                    *)

\* math.cos(math.radians(center_lat)) in percent; center_lat in 1e-5 degree.
\* Bhaskara's rational approximation of the sine of the complementary angle,
\* computed on centi-degrees.  Negative beyond 90 degrees, 0 within about
\* half a degree of the pole.
CosPct(center_lat) ==
    LET x == 9000 - (Abs(center_lat) \div 1000)
        p == x * (18000 - x)
    IN  IF p < 0 THEN -1 ELSE (4 * p) \div ((405000000 - p) \div 100)

RECURSIVE FloorLog2(_)
FloorLog2(q) == IF q < 2 THEN 0 ELSE 1 + FloorLog2(q \div 2)

\* int(math.log2(num / den)) for num, den > 0.  A ratio below 1 has a
\* negative logarithm, which max(0, ...) turns into 0 whatever the other
\* axis gives, so it is represented by 0.
TruncLog2(num, den) == IF num < den THEN 0 ELSE FloorLog2(num \div den)

\* the exceptions of calculate_zoom_level: ZeroDivisionError for
\* grid_size = 0 or an empty span, ValueError (math domain error) for a
\* negative span or a non-positive cosine.
ZoomRaises(b, n) ==
    \/ n = 0
    \/ b[2] - b[1] <= 0
    \/ b[4] - b[3] <= 0
    \/ CosPct((b[1] + b[2]) \div 2) <= 0

\* variant: the span is multiplied by the grid size instead of divided
TargetPerTileMul(range, n) == <<range * n, 1>>

\* target_*_per_tile = range / grid_size, in 1/n-ths of a unit
TargetPerTile(range, n) == <<range, n>>

calculate_zoom_level(b, n) ==
    LET lat_range  == b[2] - b[1]
        lon_range  == b[4] - b[3]
        center_lat == (b[1] + b[2]) \div 2
        t_lat      == TargetPerTile(lat_range, n)
        t_lon      == TargetPerTile(lon_range, n)
        zoom_lon   == TruncLog2(WORLD_PER_PIXEL * t_lon[2], t_lon[1])
        zoom_lat   == TruncLog2(WORLD_PER_PIXEL * t_lat[2],
                                Max2(1, (t_lat[1] * CosPct(center_lat)) \div 100))
    IN  Max2(0, Min2(MAX_ZOOM, Min2(zoom_lon, zoom_lat)))


-----------------------------------------------------------------------------
(* Working directory                                                       *)

\* f"map_{map_type}_{row}_{col}.png"
TileName(style, r, c) == <<style, r, c>>

\* the expected tiles of a grid in the order of the two nested range() loops
GridTiles(style, n) ==
    [i \in 1..(n * n) |-> TileName(style, (i - 1) \div n, (i - 1) % n)]

GridNames(style, n) == {TileName(style, r, c) : r \in 0..(n - 1), c \in 0..(n - 1)}

\* os.path.exists(filename)
Exists(name) == name \in DOMAIN tile_files

\* open(filename, 'wb'); f.write(content)
WriteFile(dir, name, content) ==
    [k \in DOMAIN dir \cup {name} |-> IF k = name THEN content ELSE dir[k]]

\* size of the image the provider returns for size=640x640, scale=2
FetchedSize == <<REQUEST_SIZE * REQUEST_SCALE, REQUEST_SIZE * REQUEST_SCALE>>

-----------------------------------------------------------------------------
(* download_google_map                                                     *)

\* center of tile (r, c): the midpoint of its sub-box on each axis
TileCenter(b, n, r, c) ==
    << b[1] + ((2 * r + 1) * (b[2] - b[1])) \div (2 * n),
       b[3] + ((2 * c + 1) * (b[4] - b[3])) \div (2 * n) >>

\* entry of download_google_map up to the first loop iteration
DownloadCall(style, n, b) ==
    /\ pc \in {"idle", "returned"}
    /\ map_type' = style
    /\ grid_size' = n
    /\ box' = b
    /\ req_log' = <<>>
    /\ written' = {}
    /\ row' = 0
    /\ col' = 0
    /\ IF ~api_key
         THEN /\ pc' = "returned"
              /\ last_print' = "skipping"
              /\ zoom' = zoom
         ELSE IF ZoomRaises(b, n)
         THEN /\ pc' = "raised"
              /\ UNCHANGED <<last_print, zoom>>
         ELSE /\ pc' = "loop"
              /\ last_print' = "downloading"
              /\ zoom' = calculate_zoom_level(b, n)
    /\ UNCHANGED <<api_key, tile_files, stitched_files, stale, failed, st_calls>>

\* the request of one loop iteration: requests.get(..., params=params)
Request ==
    [style |-> map_type, row |-> row, col |-> col, zoom |-> zoom,
     center |-> TileCenter(box, grid_size, row, col)]

\* for row in range(grid_size): for col in range(grid_size):
NextTile ==
    /\ col' = IF col + 1 < grid_size THEN col + 1 ELSE 0
    /\ row' = IF col + 1 < grid_size THEN row ELSE row + 1

InLoop == pc = "loop" /\ row < grid_size

\* response.status_code == 200: the content is written to the tile file
FetchOk ==
    /\ InLoop
    /\ req_log' = Append(req_log, Request)
    /\ tile_files' = WriteFile(tile_files, TileName(map_type, row, col), FetchedSize)
    /\ written' = written \cup {TileName(map_type, row, col)}
    /\ last_print' = "ok"
    /\ NextTile
    /\ UNCHANGED <<api_key, stitched_files, stale, pc, box, map_type, grid_size,
                   zoom, failed, st_calls, callerVars>>

\* variant: a failed request leaves both loops
FailTileAbort(log_line) ==
    /\ req_log' = Append(req_log, Request)
    /\ failed' = failed \cup {TileName(map_type, row, col)}
    /\ last_print' = log_line
    /\ row' = grid_size
    /\ col' = 0
    /\ UNCHANGED <<api_key, tile_files, stitched_files, stale, pc, box, map_type,
                   grid_size, zoom, written, st_calls, callerVars>>

\* a failed request: the file is not written and the loop goes on.
\* log_line is the line printed for the failure.
FailTile(log_line) ==
    /\ req_log' = Append(req_log, Request)
    /\ failed' = failed \cup {TileName(map_type, row, col)}
    /\ last_print' = log_line
    /\ NextTile
    /\ UNCHANGED <<api_key, tile_files, stitched_files, stale, pc, box, map_type,
                   grid_size, zoom, written, st_calls, callerVars>>

\* response.status_code != 200
FetchStatus ==
    /\ InLoop
    /\ FailTile("status")

\* requests.get raised (timeout, connection error): except Exception
FetchException ==
    /\ InLoop
    /\ FailTile("exception")

\* the loops are exhausted: the function falls off its end
DownloadReturn ==
    /\ pc = "loop"
    /\ row >= grid_size
    /\ pc' = "returned"
    /\ UNCHANGED <<api_key, tile_files, stitched_files, stale, box, map_type,
                   grid_size, zoom, row, col, req_log, written, failed,
                   last_print, st_calls, callerVars>>

-----------------------------------------------------------------------------
(* stitch_maps                                                             *)

\* f"map_{map_type}_stitched.png"
StitchedName(style) == <<style, "stitched">>

\* variant: a missing file is skipped instead of ending the call
ScanTilesSkip(style, n) ==
    [complete |-> TRUE, tiles |-> SelectSeq(GridTiles(style, n), Exists)]

\* the first loop: the tiles found, or the early return None at the first
\* missing file (complete = FALSE)
ScanTiles(style, n) ==
    IF \E i \in 1..(n * n) : ~Exists(GridTiles(style, n)[i])
      THEN [complete |-> FALSE, tiles |-> <<>>]
      ELSE [complete |-> TRUE, tiles |-> GridTiles(style, n)]

\* variant: rows are not flipped
PasteOffsetNoFlip(r, c, n, w, h) == <<c * w, r * h>>

\* x_offset, y_offset of tile (r, c); rows are flipped
PasteOffset(r, c, n, w, h) == <<c * w, (n - 1 - r) * h>>

\* the paste loop: each tile is opened and pasted with its own size
Pastes(tiles, n, w, h) ==
    [i \in 1..Len(tiles) |->
        [name |-> tiles[i],
         at   |-> PasteOffset(tiles[i][2], tiles[i][3], n, w, h),
         size |-> tile_files[tiles[i]]]]

\* the whole of stitch_maps(map_type, grid_size)
Stitch(style, n) ==
    LET scan  == ScanTiles(style, n)
        tiles == scan.tiles
    IN  /\ IF ~scan.complete \/ tiles = <<>>
             THEN /\ st_calls' = Append(st_calls,
                        [style |-> style, n |-> n, ret |-> None,
                         opened |-> {}, wrote |-> FALSE])
                  /\ stitched_files' = stitched_files
             ELSE LET first == tile_files[tiles[1]]
                      image == [w |-> first[1] * n, h |-> first[2] * n,
                                pastes |-> Pastes(tiles, n, first[1], first[2])]
                  IN  /\ st_calls' = Append(st_calls,
                            [style |-> style, n |-> n, ret |-> StitchedName(style),
                             opened |-> {tiles[i] : i \in 1..Len(tiles)},
                             wrote |-> TRUE])
                      /\ stitched_files' =
                            [s \in DOMAIN stitched_files \cup {style} |->
                                IF s = style THEN image ELSE stitched_files[s]]
        /\ UNCHANGED <<api_key, tile_files, stale, dlVars>>

-----------------------------------------------------------------------------
(* Raw values of the vendor records                                        *)

\* a JSON value: null / a number / a string
NoneVal == [k |-> "none", v |-> 0, s |-> ""]
Num(v)  == [k |-> "num", v |-> v, s |-> ""]
Str(s)  == [k |-> "str", v |-> 0, s |-> s]

\* Python truthiness: None, 0, 0.0 and "" are falsy
Truthy(x) == (x.k = "num" /\ x.v # 0) \/ (x.k = "str" /\ x.s # "")

\* a or b
Or(a, b) == IF Truthy(a) THEN a ELSE b

\* the strings float() parses, with their values
NumericStrings == {"40.001", "-74.001", "0"}

ParseFloat(s) ==
    CASE s = "40.001"  -> 4000100
      [] s = "-74.001" -> -7400100
      [] s = "0"       -> 0

\* float(x) raises ValueError on a string that is not a number
FloatRaises(x) == x.k = "str" /\ x.s \notin NumericStrings

\* float(x)
Float(x) == IF x.k = "str" THEN ParseFloat(x.s) ELSE x.v

-----------------------------------------------------------------------------
(* format_data_for_touchdesigner: coordinate reconciliation                *)

\* site_map after the loop over uisp_sites: later records overwrite
RECURSIVE BuildSiteMap(_, _)
BuildSiteMap(sites, m) ==
    IF sites = <<>> THEN m
    ELSE LET site == Head(sites)
             m2   == IF site.id # ""
                       THEN [k \in DOMAIN m \cup {site.id} |->
                               IF k = site.id
                                 THEN [lat |-> site.lat, lon |-> site.lon]
                                 ELSE m[k]]
                       ELSE m
         IN  BuildSiteMap(Tail(sites), m2)

\* site_map.get(s_id, {}).get(key)
SiteCoord(m, s_id, key) ==
    IF s_id \in DOMAIN m THEN m[s_id][key] ELSE NoneVal

\* attr.get(..) or loc.get(..) or site_coords.get(..)
ResolveLat(dev, m) == Or(Or(dev.attr_lat, dev.loc_lat), SiteCoord(m, dev.siteId, "lat"))
ResolveLon(dev, m) == Or(Or(dev.attr_lon, dev.loc_lon), SiteCoord(m, dev.siteId, "lon"))

\* combined_data and the locals at function entry; the site loop
FormatStart ==
    /\ fpc = "start"
    /\ site_map' = IF uisp_sites.is_list
                     THEN BuildSiteMap(uisp_sites.items, <<>>)
                     ELSE <<>>
    /\ idx' = 1
    /\ temp_uisp' = <<>>
    /\ lats' = <<>>
    /\ lons' = <<>>
    /\ uisp' = <<>>
    /\ map_metadata' = <<>>
    /\ fpc' = IF uisp_devs.is_list THEN "resolve" ELSE "filter"
    /\ UNCHANGED <<tileVars, uisp_devs, uisp_sites, get_map, filterVars, zoom_calls>>

\* one iteration of "for dev in uisp_devs"
ResolveDevice ==
    /\ fpc = "resolve"
    /\ idx <= Len(uisp_devs.items)
    /\ LET dev == uisp_devs.items[idx]
           lat == ResolveLat(dev, site_map)
           lon == ResolveLon(dev, site_map)
       IN  IF Truthy(lat) /\ Truthy(lon)
             THEN IF FloatRaises(lat) \/ FloatRaises(lon)
                    THEN /\ fpc' = "raised"
                         /\ UNCHANGED <<idx, temp_uisp>>
                    ELSE /\ fpc' = fpc
                         /\ idx' = idx + 1
                         /\ temp_uisp' =
                              IF Abs(Float(lat)) > DEGENERATE_LAT
                                THEN Append(temp_uisp,
                                       [name |-> dev.name, lat |-> Float(lat),
                                        lon |-> Float(lon)])
                                ELSE temp_uisp
             ELSE /\ fpc' = fpc
                  /\ idx' = idx + 1
                  /\ temp_uisp' = temp_uisp
    /\ UNCHANGED <<tileVars, uisp_devs, uisp_sites, get_map, site_map, lats, lons,
                   uisp, map_metadata, filterVars, zoom_calls>>

\* the device loop is exhausted
ResolveDone ==
    /\ fpc = "resolve"
    /\ idx > Len(uisp_devs.items)
    /\ fpc' = "filter"
    /\ UNCHANGED <<tileVars, reconVars, filterVars, zoom_calls>>

\* sorted(xs), by insertion
RECURSIVE Insert(_, _)
Insert(x, sorted) ==
    IF sorted = <<>> THEN <<x>>
    ELSE IF x <= Head(sorted) THEN <<x>> \o sorted
    ELSE <<Head(sorted)>> \o Insert(x, Tail(sorted))

RECURSIVE Sorted(_)
Sorted(xs) == IF xs = <<>> THEN <<>> ELSE Insert(Head(xs), Sorted(Tail(xs)))

\* variant: the lower middle element of an even-length list
MedianIndexLow(n) == ((n - 1) \div 2) + 1

\* all_xs[len(all_xs)//2] for a non-empty list (sequences are 1-based)
MedianIndex(n) == (n \div 2) + 1

Median(xs) == Sorted(xs)[MedianIndex(Len(xs))]

\* abs(lat - med_lat) < 0.03 and abs(lon - med_lon) < 0.03
Within(c, med_lat, med_lon) ==
    Abs(c.lat - med_lat) < TOLERANCE /\ Abs(c.lon - med_lon) < TOLERANCE

\* variant: the emitting loop starts at the second candidate
MedianFilterSkipFirst(cands) ==
    IF cands = <<>> THEN <<>>
    ELSE LET med_lat == Median([i \in 1..Len(cands) |-> cands[i].lat])
             med_lon == Median([i \in 1..Len(cands) |-> cands[i].lon])
         IN  SelectSeq(Tail(cands), LAMBDA c : Within(c, med_lat, med_lon))

\* the candidates the filter loop emits, in order
MedianFilter(cands) ==
    IF cands = <<>> THEN <<>>
    ELSE LET med_lat == Median([i \in 1..Len(cands) |-> cands[i].lat])
             med_lon == Median([i \in 1..Len(cands) |-> cands[i].lon])
         IN  SelectSeq(cands, LAMBDA c : Within(c, med_lat, med_lon))

\* "if temp_uisp:" with the medians and the emitting loop
FilterEmit ==
    /\ fpc = "filter"
    /\ LET kept == MedianFilter(temp_uisp)
       IN  /\ lats' = lats \o [i \in 1..Len(kept) |-> kept[i].lat]
           /\ lons' = lons \o [i \in 1..Len(kept) |-> kept[i].lon]
           /\ uisp' = uisp \o kept
    /\ fpc' = "map"
    /\ UNCHANGED <<tileVars, uisp_devs, uisp_sites, get_map, site_map, idx,
                   temp_uisp, map_metadata, filterVars, zoom_calls>>

-----------------------------------------------------------------------------
(* format_data_for_touchdesigner: the map branch                           *)

SeqMin(xs) == CHOOSE m \in {xs[i] : i \in 1..Len(xs)} :
                 \A i \in 1..Len(xs) : m <= xs[i]
SeqMax(xs) == CHOOSE m \in {xs[i] : i \in 1..Len(xs)} :
                 \A i \in 1..Len(xs) : m >= xs[i]

\* (max - min) * 0.05 or 0.0005
Pad(span) == IF span = 0 THEN PAD_FLOOR ELSE span \div PAD_DIVISOR

\* the padded bounding box of the emitted coordinates
PaddedBox(las, los) ==
    LET lat_pad == Pad(SeqMax(las) - SeqMin(las))
        lon_pad == Pad(SeqMax(los) - SeqMin(los))
    IN  <<SeqMin(las) - lat_pad, SeqMax(las) + lat_pad,
          SeqMin(los) - lon_pad, SeqMax(los) + lon_pad>>

\* "if get_map and lats and lons:" up to the map_metadata assignment,
\* or the return when the branch is not taken
MapDecision ==
    /\ fpc = "map"
    /\ IF get_map /\ lats # <<>> /\ lons # <<>>
         THEN /\ map_metadata' = [box |-> PaddedBox(lats, lons),
                                  grid |-> <<PIPELINE_GRID, PIPELINE_GRID>>]
              /\ fpc' = "dl_satellite"
         ELSE /\ map_metadata' = map_metadata
              /\ fpc' = "returned"
    /\ UNCHANGED <<tileVars, uisp_devs, uisp_sites, get_map, site_map, idx,
                   temp_uisp, lats, lons, uisp, filterVars, zoom_calls>>

\* download_google_map(lat_min, lat_max, lon_min, lon_max, 'satellite', ...)
FormatDownloadSatellite ==
    /\ fpc = "dl_satellite"
    /\ DownloadCall("satellite", PIPELINE_GRID, map_metadata.box)
    /\ fpc' = "dl_roadmap"
    /\ UNCHANGED <<reconVars, filterVars, zoom_calls>>

\* download_google_map(lat_min, lat_max, lon_min, lon_max, 'roadmap', ...)
FormatDownloadRoadmap ==
    /\ fpc = "dl_roadmap"
    /\ pc = "returned"
    /\ DownloadCall("roadmap", PIPELINE_GRID, map_metadata.box)
    /\ fpc' = "st_satellite"
    /\ UNCHANGED <<reconVars, filterVars, zoom_calls>>

\* stitch_maps('satellite', grid_size)
FormatStitchSatellite ==
    /\ fpc = "st_satellite"
    /\ pc = "returned"
    /\ Stitch("satellite", PIPELINE_GRID)
    /\ fpc' = "st_roadmap"
    /\ UNCHANGED <<reconVars, filterVars, zoom_calls>>

\* stitch_maps('roadmap', grid_size) and "return combined_data"
FormatStitchRoadmap ==
    /\ fpc = "st_roadmap"
    /\ Stitch("roadmap", PIPELINE_GRID)
    /\ fpc' = "returned"
    /\ UNCHANGED <<reconVars, filterVars, zoom_calls>>

\* an exception of download_google_map is not caught by its caller
FormatRaise ==
    /\ fpc \in {"dl_roadmap", "st_satellite"}
    /\ pc = "raised"
    /\ fpc' = "raised"
    /\ UNCHANGED <<tileVars, reconVars, filterVars, zoom_calls>>

-----------------------------------------------------------------------------
(* Direct calls of download_google_map and stitch_maps                     *)

\* a padded box of two nearby devices, and a box with empty spans
DirectBoxes == { <<3999995, 4000105, -7400105, -7399995>>,
                 <<4000000, 4000000, -7400000, -7400000>> }

DirectDownload ==
    \E style \in Styles, n \in 0..MaxGrid, b \in DirectBoxes :
        /\ pc = "idle"
        /\ st_calls = <<>>
        /\ DownloadCall(style, n, b)
        /\ UNCHANGED callerVars

DirectStitch ==
    \E style \in Styles, n \in 0..MaxGrid :
        /\ pc \in {"idle", "returned"}
        /\ st_calls = <<>>
        /\ Stitch(style, n)
        /\ UNCHANGED callerVars

-----------------------------------------------------------------------------
(* Re-running the median filter on its own output                          *)

Refilter ==
    /\ fpc = "map"
    /\ passes = 0
    /\ first_run' = [cands |-> temp_uisp, out |-> uisp]
    /\ temp_uisp' = uisp
    /\ lats' = <<>>
    /\ lons' = <<>>
    /\ uisp' = <<>>
    /\ passes' = 1
    /\ fpc' = "filter"
    /\ UNCHANGED <<tileVars, uisp_devs, uisp_sites, get_map, site_map, idx,
                   map_metadata, zoom_calls>>

-----------------------------------------------------------------------------
(* Calls of calculate_zoom_level on one bounding box                       *)

ZoomCall ==
    \E n \in 1..MaxZoomGrid :
        /\ Len(zoom_calls) < 2
        /\ zoom_calls' = Append(zoom_calls,
                                [n |-> n, zoom |-> calculate_zoom_level(box, n)])
        /\ UNCHANGED <<api_key, tile_files, stitched_files, stale, pc, box,
                       map_type, grid_size, zoom, row, col, req_log, written,
                       failed, last_print, st_calls, fpc, reconVars, filterVars>>

-----------------------------------------------------------------------------
(* Initial states                                                          *)

DownloadIdle ==
    /\ pc = "idle"
    /\ box = <<0, 0, 0, 0>>
    /\ map_type = ""
    /\ grid_size = 0
    /\ zoom = 0
    /\ row = 0
    /\ col = 0
    /\ req_log = <<>>
    /\ written = {}
    /\ failed = {}
    /\ last_print = ""

EmptyDirectory ==
    /\ tile_files = <<>>
    /\ stitched_files = <<>>
    /\ stale = {}

NoDevices == [is_list |-> TRUE, items |-> <<>>]

FormatIdle ==
    /\ uisp_devs = NoDevices
    /\ uisp_sites = NoDevices
    /\ get_map = FALSE
    /\ site_map = <<>>
    /\ idx = 1
    /\ temp_uisp = <<>>
    /\ lats = <<>>
    /\ lons = <<>>
    /\ uisp = <<>>
    /\ map_metadata = <<>>

FilterIdle == passes = 0 /\ first_run = <<>>

\* ---- raw records

Dev(name, siteId, alat, alon, llat, llon) ==
    [name |-> name, siteId |-> siteId, attr_lat |-> alat, attr_lon |-> alon,
     loc_lat |-> llat, loc_lon |-> llon]

DevicePool ==
    { Dev("A", "",   Num(4000000), Num(-7400000), NoneVal, NoneVal),
      Dev("B", "",   Str("40.001"), Str("-74.001"), NoneVal, NoneVal),
      Dev("C", "",   NoneVal, NoneVal, Num(5500000), Num(1000000)),
      Dev("D", "s1", NoneVal, NoneVal, NoneVal, NoneVal),
      Dev("E", "",   Str("abc"), Num(-7400000), Num(4000000), NoneVal),
      Dev("F", "",   Num(0), Num(-7400000), Num(5000), NoneVal),
      Dev("G", "",   Num(9500000), Num(20000000), NoneVal, NoneVal),
      Dev("H", "s9", NoneVal, Str(""), NoneVal, NoneVal),
      Dev("I", "s1", Num(4004000), NoneVal, NoneVal, NoneVal) }

Site(id, lat, lon) == [id |-> id, lat |-> lat, lon |-> lon]

SiteLists ==
    { [is_list |-> TRUE,
       items |-> << Site("s1", Num(4002000), Num(-7402000)),
                    Site("", Num(100), Num(100)) >>],
      [is_list |-> FALSE, items |-> <<>>] }

SeqsUpTo(S, n) == UNION {[1..k -> S] : k \in 0..n}

DeviceLists ==
    {[is_list |-> TRUE, items |-> ds] : ds \in SeqsUpTo(DevicePool, MaxDevs)}
      \cup {[is_list |-> FALSE, items |-> <<>>]}

\* ---- stale tile files

\* image sizes of the tiles handed to stitch_maps alone
SmallSizes == {<<1, 2>>, <<2, 1>>}

NoFile == <<0, 0>>

\* a directory holding exactly the tiles that f maps to a size
Directory(f) == [k \in {x \in DOMAIN f : f[x] # NoFile} |-> f[k]]

-----------------------------------------------------------------------------
(* Specifications                                                          *)

\* stitch_maps called on an arbitrary directory
InitStitch ==
    /\ api_key \in BOOLEAN
    /\ \E s0 \in Styles :
         \E f \in [GridNames(s0, MaxGrid) -> SmallSizes \cup {NoFile}] :
            tile_files = Directory(f)
    /\ stale = DOMAIN tile_files
    /\ stitched_files = <<>>
    /\ DownloadIdle
    /\ st_calls = <<>>
    /\ fpc = "direct"
    /\ FormatIdle
    /\ FilterIdle
    /\ zoom_calls = <<>>

NextStitch == DirectStitch

SpecStitch == InitStitch /\ [][NextStitch]_vars

\* download_google_map, then stitch_maps, on a directory with stale tiles
InitTiles ==
    /\ api_key \in BOOLEAN
    /\ \E s0 \in Styles :
         \E S \in SUBSET GridNames(s0, MaxGrid) :
            /\ Cardinality(S) <= MaxStale
            /\ tile_files = [k \in S |-> FetchedSize]
    /\ stale = DOMAIN tile_files
    /\ stitched_files = <<>>
    /\ DownloadIdle
    /\ st_calls = <<>>
    /\ fpc = "direct"
    /\ FormatIdle
    /\ FilterIdle
    /\ zoom_calls = <<>>

NextTiles ==
    \/ DirectDownload
    \/ FetchOk
    \/ FetchStatus
    \/ FetchException
    \/ DownloadReturn
    \/ DirectStitch

SpecTiles == InitTiles /\ [][NextTiles]_vars

\* format_data_for_touchdesigner without map rendering (get_map = False)
InitReconcile ==
    /\ api_key = FALSE
    /\ EmptyDirectory
    /\ DownloadIdle
    /\ st_calls = <<>>
    /\ fpc = "start"
    /\ uisp_devs \in DeviceLists
    /\ uisp_sites \in SiteLists
    /\ get_map = FALSE
    /\ site_map = <<>>
    /\ idx = 1
    /\ temp_uisp = <<>>
    /\ lats = <<>>
    /\ lons = <<>>
    /\ uisp = <<>>
    /\ map_metadata = <<>>
    /\ FilterIdle
    /\ zoom_calls = <<>>

NextReconcile ==
    \/ FormatStart
    \/ ResolveDevice
    \/ ResolveDone
    \/ FilterEmit
    \/ MapDecision

SpecReconcile == InitReconcile /\ [][NextReconcile]_vars

\* the median filter applied to a candidate list and then to its own output
CandidatePoints ==
    {[lat |-> la, lon |-> lo] : la \in {4000000, 4004000},
                                lo \in {-7400000, -7402000, -7404000}}

CandidateLists ==
    UNION { { [i \in 1..k |-> [name |-> i, lat |-> ps[i].lat, lon |-> ps[i].lon]]
                : ps \in [1..k -> CandidatePoints] } : k \in 0..MaxCands }

InitFilter ==
    /\ api_key = FALSE
    /\ EmptyDirectory
    /\ DownloadIdle
    /\ st_calls = <<>>
    /\ fpc = "filter"
    /\ uisp_devs = NoDevices
    /\ uisp_sites = NoDevices
    /\ get_map = FALSE
    /\ site_map = <<>>
    /\ idx = 1
    /\ temp_uisp \in CandidateLists
    /\ lats = <<>>
    /\ lons = <<>>
    /\ uisp = <<>>
    /\ map_metadata = <<>>
    /\ FilterIdle
    /\ zoom_calls = <<>>

NextFilter == FilterEmit \/ Refilter

SpecFilter == InitFilter /\ [][NextFilter]_vars

\* calculate_zoom_level on valid bounding boxes
ZoomBoxes ==
    { <<la, la + ls, lo, lo + os>> :
        la \in {0, 4000000, 8000000}, ls \in {110, 100000, 500000},
        lo \in {-7400000},            os \in {110, 2000, 100000, 18000000} }

InitZoom ==
    /\ api_key = FALSE
    /\ EmptyDirectory
    /\ pc = "idle"
    /\ box \in ZoomBoxes
    /\ map_type = ""
    /\ grid_size = 0
    /\ zoom = 0
    /\ row = 0
    /\ col = 0
    /\ req_log = <<>>
    /\ written = {}
    /\ failed = {}
    /\ last_print = ""
    /\ st_calls = <<>>
    /\ fpc = "direct"
    /\ FormatIdle
    /\ FilterIdle
    /\ zoom_calls = <<>>

NextZoom == ZoomCall

SpecZoom == InitZoom /\ [][NextZoom]_vars

\* format_data_for_touchdesigner with the map branch
PipelineDevices ==
    LET pick(n) == CHOOSE d \in DevicePool : d.name = n
    IN  { [is_list |-> TRUE, items |-> <<>>],
          [is_list |-> TRUE, items |-> <<pick("A")>>],
          [is_list |-> TRUE, items |-> <<pick("A"), pick("B"), pick("C")>>],
          [is_list |-> TRUE, items |-> <<pick("G")>>] }

\* the tile files an earlier run left for one style: none, or a grid with
\* at most MaxHoles of its first tiles missing
StaleGrids(style) ==
    {{}} \cup
    { GridNames(style, PIPELINE_GRID) \ H :
        H \in { X \in SUBSET {GridTiles(style, PIPELINE_GRID)[i] : i \in 1..MaxHoles} :
                  TRUE } }

InitPipeline ==
    /\ api_key \in BOOLEAN
    /\ \E sat \in StaleGrids("satellite"), road \in StaleGrids("roadmap") :
         tile_files = [k \in sat \cup road |-> FetchedSize]
    /\ stale = DOMAIN tile_files
    /\ stitched_files = <<>>
    /\ DownloadIdle
    /\ st_calls = <<>>
    /\ fpc = "start"
    /\ uisp_devs \in PipelineDevices
    /\ uisp_sites \in SiteLists
    /\ get_map \in BOOLEAN
    /\ site_map = <<>>
    /\ idx = 1
    /\ temp_uisp = <<>>
    /\ lats = <<>>
    /\ lons = <<>>
    /\ uisp = <<>>
    /\ map_metadata = <<>>
    /\ FilterIdle
    /\ zoom_calls = <<>>

\* the failed fetches of a run are capped
FailuresLeft == Cardinality(failed) < MaxFailures

PipelineFetchStatus ==
    /\ FailuresLeft
    /\ FetchStatus

PipelineFetchException ==
    /\ FailuresLeft
    /\ FetchException

NextPipeline ==
    \/ FormatStart
    \/ ResolveDevice
    \/ ResolveDone
    \/ FilterEmit
    \/ MapDecision
    \/ FormatDownloadSatellite
    \/ FormatDownloadRoadmap
    \/ FetchOk
    \/ PipelineFetchStatus
    \/ PipelineFetchException
    \/ DownloadReturn
    \/ FormatRaise
    \/ FormatStitchSatellite
    \/ FormatStitchRoadmap

SpecPipeline == InitPipeline /\ [][NextPipeline]_vars

-----------------------------------------------------------------------------
(* Properties                                                              *)

LastCall(calls) == calls[Len(calls)]

MissingTiles(style, n) == {name \in GridNames(style, n) : name \notin DOMAIN tile_files}

\* C1: a call of stitch_maps(style, N) made while at least one of the N*N
\* expected tile files is absent returns None, opens no tile, and leaves the
\* stitched image of the style (and the whole directory) as it was.
C1_StitchRefusedOnMissingTile ==
    [][ (Len(st_calls') = Len(st_calls) + 1
          /\ MissingTiles(LastCall(st_calls').style, LastCall(st_calls').n) # {})
        => /\ LastCall(st_calls').ret = None
           /\ LastCall(st_calls').opened = {}
           /\ ~LastCall(st_calls').wrote
           /\ stitched_files' = stitched_files
           /\ tile_files' = tile_files ]_vars

\* a refused call on a grid of which some tiles are there and some are not
C1_Witness ==
    \E i \in 1..Len(st_calls) :
        /\ st_calls[i].n >= 2
        /\ st_calls[i].ret = None
        /\ MissingTiles(st_calls[i].style, st_calls[i].n) # {}
        /\ MissingTiles(st_calls[i].style, st_calls[i].n)
              # GridNames(st_calls[i].style, st_calls[i].n)
        /\ stitched_files = <<>>

\* C2 (as claimed): when a download of (style, N) of which at least one
\* fetch failed is followed by stitch_maps(style, N), the stitch returns
\* None and no stitched image of the style exists.
C2_FailedFetchRefusesStitch ==
    \A i \in 1..Len(st_calls) :
        ( /\ api_key
          /\ pc = "returned"
          /\ st_calls[i].style = map_type
          /\ st_calls[i].n = grid_size
          /\ failed \cap GridNames(map_type, grid_size) # {} )
        => /\ st_calls[i].ret = None
           /\ map_type \notin DOMAIN stitched_files

\* C3 (as claimed): with get_map true, a device emitted and no provider
\* key, format_data_for_touchdesigner issues no request, writes no tile,
\* produces no stitched image and does not raise.
C3_NoKeyDisablesFetchAndStitch ==
    (get_map /\ ~api_key /\ uisp # <<>>)
    => /\ fpc # "raised"
       /\ req_log = <<>>
       /\ written = {}
       /\ DOMAIN tile_files = stale
       /\ DOMAIN stitched_files = {}
       /\ \A i \in 1..Len(st_calls) : ~st_calls[i].wrote

\* paste p covers the pixel (x, y)
Covers(p, x, y) ==
    /\ p.at[1] <= x /\ x < p.at[1] + p.size[1]
    /\ p.at[2] <= y /\ y < p.at[2] + p.size[2]

\* the pastes of an image that cover the pixel (x, y)
Covering(img, x, y) == {j \in 1..Len(img.pastes) : Covers(img.pastes[j], x, y)}

\* the grid of the call is complete and all its tiles have the size d
UniformGrid(call, d) ==
    /\ call.n >= 1
    /\ \A name \in GridNames(call.style, call.n) :
          name \in DOMAIN tile_files /\ tile_files[name] = d

RECURSIVE IsSubSeq(_, _)
\* a is b with some elements left out
IsSubSeq(a, b) ==
    IF a = <<>> THEN TRUE
    ELSE IF b = <<>> THEN FALSE
    ELSE IF Head(a) = Head(b) THEN IsSubSeq(Tail(a), Tail(b))
    ELSE IsSubSeq(a, Tail(b))

LatsOf(cs) == [i \in 1..Len(cs) |-> cs[i].lat]
LonsOf(cs) == [i \in 1..Len(cs) |-> cs[i].lon]

\* the second pass is over
SecondPassDone == passes = 1 /\ fpc = "map"

\* the medians recomputed over the output of the first pass are the medians
\* of its input
MediansKept ==
    /\ first_run.out # <<>>
    /\ Median(LatsOf(first_run.out)) = Median(LatsOf(first_run.cands))
    /\ Median(LonsOf(first_run.out)) = Median(LonsOf(first_run.cands))

\* C5 (as claimed): filtering the output of the filter removes nothing.
C5_FilterIdempotent == SecondPassDone => uisp = first_run.out

\* C5 (amended): filtering the output of the filter never adds or reorders
\* devices, and removes nothing when the medians recomputed over that output
\* equal the medians of the first pass.
C5_FilterIdempotentWhenMediansKept ==
    SecondPassDone =>
        /\ IsSubSeq(uisp, first_run.out)
        /\ MediansKept => uisp = first_run.out

\* the first pass removed a device, the medians stayed, the second pass
\* removed nothing
C5_Witness ==
    /\ SecondPassDone
    /\ Len(first_run.out) < Len(first_run.cands)
    /\ MediansKept
    /\ uisp = first_run.out

\* C6 (as claimed): no exception propagates from coordinate reconciliation.
C6_NoExceptionPropagates == fpc # "raised"

\* C7 (as claimed): every emitted record has latitude in [-90, 90],
\* longitude in [-180, 180] and |latitude| > 0.1.
C7_EmittedInRange ==
    \A i \in 1..Len(uisp) :
        /\ -9000000 <= uisp[i].lat /\ uisp[i].lat <= 9000000
        /\ -18000000 <= uisp[i].lon /\ uisp[i].lon <= 18000000
        /\ Abs(uisp[i].lat) > 10000

\* the median by rank: the value with at most n div 2 values below it and
\* more than n div 2 values not above it
RankMedian(xs) ==
    CHOOSE v \in {xs[i] : i \in 1..Len(xs)} :
        /\ Cardinality({i \in 1..Len(xs) : xs[i] < v}) <= Len(xs) \div 2
        /\ Cardinality({i \in 1..Len(xs) : xs[i] <= v}) > Len(xs) \div 2

NearMedians(c, cands) ==
    /\ Abs(c.lat - RankMedian(LatsOf(cands))) < 3000
    /\ Abs(c.lon - RankMedian(LonsOf(cands))) < 3000

\* the candidates (40.0,-74.0), (40.001,-74.001), (55.0,10.0)
IsExample(cands) ==
    /\ Len(cands) = 3
    /\ cands[1].lat = 4000000 /\ cands[1].lon = -7400000
    /\ cands[2].lat = 4000100 /\ cands[2].lon = -7400100
    /\ cands[3].lat = 5500000 /\ cands[3].lon = 1000000

FilterDone == fpc \in {"map", "returned"}

\* C8: the emitted records are exactly the candidates within 0.03 of the
\* per-axis medians of the whole candidate list (medians taken once, at
\* rank floor(n/2) of each axis); of the example's three candidates the
\* distant third is excluded and the first two are retained.
C8_SinglePassMedianFilter ==
    FilterDone =>
        /\ uisp = SelectSeq(temp_uisp, LAMBDA c : NearMedians(c, temp_uisp))
        /\ IsExample(temp_uisp) => uisp = SubSeq(temp_uisp, 1, 2)

\* the example has been filtered
C8_Witness ==
    /\ fpc = "returned"
    /\ IsExample(temp_uisp)
    /\ Len(uisp) = 2

\* the tiles of the current call whose request has been issued
Requested == {TileName(req_log[i].style, req_log[i].row, req_log[i].col) :
                i \in 1..Len(req_log)}

\* C9: with a key, download_google_map issues exactly one request for every
\* tile of the grid whatever requests fail: in the loop the requests issued
\* are exactly those of the tiles before (row, col); at the return every
\* tile has one request and the files written are those of the requests
\* that did not fail; the call raises only for arguments that
\* calculate_zoom_level rejects, before any request.
C9_OneRequestPerTile ==
    /\ (pc = "loop") =>
          /\ col < grid_size /\ row <= grid_size
          /\ Len(req_log) = row * grid_size + col
    /\ (api_key /\ pc = "returned") =>
          /\ Len(req_log) = grid_size * grid_size
          /\ \A r \in 0..(grid_size - 1), c \in 0..(grid_size - 1) :
                Cardinality({i \in 1..Len(req_log) :
                               /\ req_log[i].style = map_type
                               /\ req_log[i].row = r
                               /\ req_log[i].col = c}) = 1
          /\ written = Requested \ failed
          /\ written \subseteq DOMAIN tile_files
          /\ failed \cap stale \subseteq DOMAIN tile_files
          /\ \A name \in failed \ stale : name \notin DOMAIN tile_files
    /\ (pc = "raised") => (ZoomRaises(box, grid_size) /\ req_log = <<>>)

\* a 2x2 download returned although its first request failed, and wrote the
\* last tile
C9_Witness ==
    /\ api_key
    /\ pc = "returned"
    /\ grid_size = 2
    /\ TileName(map_type, 0, 0) \in failed
    /\ TileName(map_type, 1, 1) \in written
    /\ Len(req_log) = 4

\* C10: for one valid bounding box, a larger grid size never gives a lower
\* zoom.
C10_ZoomMonotoneInGrid ==
    \A i, j \in 1..Len(zoom_calls) :
        zoom_calls[i].n <= zoom_calls[j].n
            => zoom_calls[i].zoom <= zoom_calls[j].zoom

\* the grid size was doubled and the zoom went up
C10_Witness ==
    /\ Len(zoom_calls) = 2
    /\ zoom_calls[2].n = 2 * zoom_calls[1].n
    /\ zoom_calls[1].zoom < zoom_calls[2].zoom

=============================================================================
